---- MODULE Spec2Model ----
(***************************************************************************)
(* Model of the xcap recording engine: the shared Condition state machine, *)
(* the RecorderWaker, the polling (Xorg) capture thread, the portal        *)
(* (Wayland/PipeWire) event loop with its control channel, and the         *)
(* uniform request/response protocol of the desktop portal client.         *)
(***************************************************************************)
EXTENDS Integers, Sequences, FiniteSets, TLC

(***************************************************************************)
(* Bounds of the model.                                                    *)
(***************************************************************************)
\* number of threads that may hold a recorder handle (clone) and call it
NumCallers == 2
\* total number of start/pause/stop/drop calls issued in one behaviour
MaxCalls == 4
\* the count of pushed frames saturates here
MaxFrames == 2

Callers == {"caller" \o ToString(i) : i \in 1..NumCallers}
FirstCaller == "caller1"

\* src/video_recorder.rs: enum Condition
Condition == {"Init", "Running", "Paused", "Stopped"}

Backends == {"polling", "portal"}
Ops == {"start", "pause", "stop", "drop"}
NoCond == "None"

VARIABLES
    backend,            \* which backend the facade built
    condition,          \* Arc<Mutex<Condition>>: the value
    condLock,           \* Arc<Mutex<Condition>>: "free", "capture" or the caller holding it
    parking,            \* RecorderWaker.parking
    capPc,              \* position of the capture thread / event loop thread
    frames,             \* number of frames pushed on the frame channel (saturating)
    pushCond,           \* the Condition read when the latest frame was pushed
    senderAlive,        \* the capture thread still owns the frame Sender
    condition_sender,   \* control channel: queue of Conditions not yet handled
    streamActive,       \* PipeWire stream active flag
    pc,                 \* per caller: "idle", "lock", "body", "wake", "sleep"
    op,                 \* per caller: the operation in progress
    owns,               \* per caller: holds a (clone of the) recorder handle
    calls,              \* number of calls issued
    hist                \* completed calls in order of return: [op, res]

recVars == <<backend, condition, condLock, parking, capPc, frames, pushCond, senderAlive,
             condition_sender, streamActive, pc, op, owns, calls, hist>>

\* The portal negotiation run by WaylandVideoRecorder::new before the
\* recorder exists.
VARIABLES
    setupStep,          \* "ScreenCast::new", "CreateSession", "SelectSources", "Start",
                        \* "pipewire_capturer", "constructed", "failed"
    obrPc,              \* 0: no call in progress; else the next step of on_blocking_response
    handle_token,       \* the Request Token of the call in progress, or NoToken
    subscribed,         \* paths whose Response signal the client receives
    portalRequests,     \* calls the portal has received and not yet answered
    resp_it,            \* Response signals queued for the client, in order
    emitted,            \* the Response the portal emitted for the call in progress
    received,           \* the Response that resp_it.next() returned
    lostResponses       \* a Response was emitted at a path nobody was subscribed to

protoVars == <<obrPc, handle_token, subscribed, portalRequests, resp_it, emitted, received,
               lostResponses>>

\* ScreenCast::new: its arguments, what it reads and the fields it builds
VARIABLES
    flags,                  \* the ScreenCastFlag set passed to ScreenCast::new
    version,                \* the portal's version property
    available_cursor_modes, \* the portal's AvailableCursorModes property (raw u32)
    token_file,             \* content of the per-user restore-token file, or NoToken
    cursor_modes,           \* ScreenCast.cursor_modes
    restore_token           \* ScreenCast.restore_token

castVars == <<flags, version, available_cursor_modes, token_file, cursor_modes, restore_token>>

\* the portal session and the record of what construction did
VARIABLES
    session_handle_token,   \* the Session Token generated by create_session
    session,                \* the session path create_session returned, or NoSession
    portalSessions,         \* sessions open at the portal
    issued,                 \* the methods of the remote calls issued so far, in order
    obr_result,             \* how the latest on_blocking_response returned: "Ok" / "Err"
    error                   \* the error construction returned, or "None"

sessVars == <<session_handle_token, session, portalSessions>>
logVars == <<issued, obr_result, error>>

setupVars == <<setupStep, protoVars, castVars, sessVars, logVars>>

\* The conversions applied to single values: a cursor-mode property read from
\* the portal, a buffer dequeued from the stream.
VARIABLES
    cm_value,           \* the AvailableCursorModes value received: a u32, or NotU32
    cm_modes,           \* the CursorModes built from it, or NoModes
    cm_show,            \* the argument of the latest best_mode call
    cm_best,            \* the result of the latest best_mode call, or "None"
    cm_hidden,          \* the result of is_hidden_available: "true" / "false", or "None"
    format,             \* user_data.format.format(): the negotiated VideoFormat
    size,               \* user_data.format.size(): [width, height]
    frame_data,         \* datas[0].data(): the bytes of the dequeued buffer
    sent                \* the Frame handed to sender.send, or NoFrame

cursorVars == <<cm_value, cm_modes, cm_show, cm_best, cm_hidden>>
frameVars == <<format, size, frame_data, sent>>

\* The mutex of the RecorderWaker, for the steps of wake(), sleep() and wait()
\* taken one lock operation at a time.
VARIABLE parkingLock    \* who holds RecorderWaker.parking: "free", "capture" or a caller

mutexVars == <<parkingLock>>
pureVars == <<cursorVars, frameVars, mutexVars>>

vars == <<recVars, setupVars, pureVars>>

(***************************************************************************)
(* The transition decision of each operation: what it returns, the new     *)
(* Condition, and which notification follows.                              *)
(***************************************************************************)
Outcome(ret, new, notify) == [ret |-> ret, new |-> new, notify |-> notify]

\* mutant: start() without the `Condition::Stopped => return Err` arm
XorgStart_NoStoppedArm(cur) ==
    IF cur = "Running" THEN Outcome("Ok", cur, "none")
    ELSE Outcome("Ok", "Running", "wake")

\* XorgVideoRecorder::start
XorgStart(cur) ==
    IF cur = "Running" THEN Outcome("Ok", cur, "none")
    ELSE IF cur = "Stopped" THEN Outcome("Err", cur, "none")
    ELSE Outcome("Ok", "Running", "wake")

\* mutant: pause() without the `Condition::Stopped => return Err` arm
XorgPause_NoStoppedArm(cur) ==
    IF cur = "Paused" THEN Outcome("Ok", cur, "none")
    ELSE Outcome("Ok", "Paused", "sleep")

\* XorgVideoRecorder::pause
XorgPause(cur) ==
    IF cur = "Paused" THEN Outcome("Ok", cur, "none")
    ELSE IF cur = "Stopped" THEN Outcome("Err", cur, "none")
    ELSE Outcome("Ok", "Paused", "sleep")

\* mutant: stop() storing Stopped without the call of wake()
XorgStop_NoWake(cur) == Outcome("Ok", "Stopped", "none")

\* mutant: stop() refusing a second stop the way start() and pause() do
XorgStop_ErrWhenStopped(cur) ==
    IF cur = "Stopped" THEN Outcome("Err", cur, "none")
    ELSE Outcome("Ok", "Stopped", "wake")

\* XorgVideoRecorder::stop
XorgStop(cur) ==
    IF cur = "Stopped" THEN Outcome("Ok", cur, "none")
    ELSE Outcome("Ok", "Stopped", "wake")

\* mutant: set_state without the `*cond == target_cond` early return
set_state_NoEarlyReturn(cur, target_cond, disallowed_cond) ==
    IF disallowed_cond # NoCond /\ cur = disallowed_cond
    THEN Outcome("Err", cur, "none")
    ELSE Outcome("Ok", target_cond, "send")

\* WaylandVideoRecorder::set_state
set_state(cur, target_cond, disallowed_cond) ==
    IF cur = target_cond THEN Outcome("Ok", cur, "none")
    ELSE IF disallowed_cond # NoCond /\ cur = disallowed_cond
         THEN Outcome("Err", cur, "none")
    ELSE Outcome("Ok", target_cond, "send")

\* mutant: stop() storing Stopped without the send on the control channel
WaylandStop_NoSend(cur) ==
    IF cur = "Stopped" THEN Outcome("Ok", cur, "none")
    ELSE Outcome("Ok", "Stopped", "none")

\* mutant: pause() passing no disallowed state
WaylandPause_NoDisallowed(cur) == set_state(cur, "Paused", NoCond)

\* WaylandVideoRecorder::start / pause / stop
WaylandStart(cur) == set_state(cur, "Running", "Stopped")
WaylandPause(cur) == set_state(cur, "Paused", "Stopped")
WaylandStop(cur) == set_state(cur, "Stopped", NoCond)

\* VideoRecorder::start/pause/stop delegate to the backend; Drop calls stop()
Dispatch(b, o, cur) ==
    IF b = "polling"
    THEN CASE o = "start" -> XorgStart(cur)
           [] o = "pause" -> XorgPause(cur)
           [] OTHER -> XorgStop(cur)
    ELSE CASE o = "start" -> WaylandStart(cur)
           [] o = "pause" -> WaylandPause(cur)
           [] OTHER -> WaylandStop(cur)

(***************************************************************************)
(* Initial state: the state right after construction of the recorder.      *)
(***************************************************************************)
RecorderInit ==
    /\ backend \in Backends
    /\ condition = "Init"
    /\ condLock = "free"
    /\ parking = TRUE
    /\ capPc = IF backend = "polling" THEN "wait" ELSE "setup"
    /\ frames = 0
    /\ pushCond = NoCond
    /\ senderAlive = TRUE
    /\ condition_sender = <<>>
    /\ streamActive = FALSE
    /\ pc = [c \in Callers |-> "idle"]
    /\ op = [c \in Callers |-> "stop"]
    /\ owns = [c \in Callers |-> c = FirstCaller]
    /\ calls = 0
    /\ hist = <<>>

(***************************************************************************)
(* Caller threads.                                                         *)
(***************************************************************************)
\* a thread holding a handle issues start(), pause(), stop(), or drops the handle
Call(c, o) ==
    /\ pc[c] = "idle"
    /\ owns[c]
    /\ calls < MaxCalls
    /\ pc' = [pc EXCEPT ![c] = "lock"]
    /\ op' = [op EXCEPT ![c] = o]
    /\ calls' = calls + 1
    /\ UNCHANGED <<setupVars, pureVars, backend, condition, condLock, parking, capPc, frames, pushCond,
                   senderAlive, condition_sender, streamActive, owns, hist>>

\* #[derive(Clone)]: a handle is cloned and given to another thread
Clone(c, d) ==
    /\ pc[c] = "idle"
    /\ owns[c]
    /\ ~owns[d]
    /\ pc[d] = "idle"
    /\ owns' = [owns EXCEPT ![d] = TRUE]
    /\ UNCHANGED <<setupVars, pureVars, backend, condition, condLock, parking, capPc, frames, pushCond,
                   senderAlive, condition_sender, streamActive, pc, op, calls, hist>>

\* self.condition.lock(): blocks until the mutex is free
Lock(c) ==
    /\ pc[c] = "lock"
    /\ condLock = "free"
    /\ condLock' = c
    /\ pc' = [pc EXCEPT ![c] = "body"]
    /\ UNCHANGED <<setupVars, pureVars, backend, condition, parking, capPc, frames, pushCond, senderAlive,
                   condition_sender, streamActive, op, owns, calls, hist>>

\* the call returns r: the guard is dropped; a dropped handle is gone
Return(c, r) ==
    /\ condLock' = "free"
    /\ pc' = [pc EXCEPT ![c] = "idle"]
    /\ owns' = [owns EXCEPT ![c] = (op[c] # "drop")]
    /\ hist' = Append(hist, [op |-> op[c], res |-> r])

\* the match on the Condition and the assignment, under the lock
Body(c) ==
    /\ pc[c] = "body"
    /\ LET t == Dispatch(backend, op[c], condition) IN
        /\ condition' = t.new
        /\ CASE t.notify = "none" ->
                  /\ Return(c, t.ret)
                  /\ UNCHANGED <<condition_sender, capPc>>
             [] t.notify = "send" ->
                  \* let _ = self.condition_sender.send(target_cond)
                  /\ condition_sender' = Append(condition_sender, t.new)
                  /\ Return(c, t.ret)
                  /\ UNCHANGED capPc
             [] OTHER ->
                  \* self.recorder_waker.wake()? or .sleep()? comes next
                  /\ pc' = [pc EXCEPT ![c] = t.notify]
                  /\ UNCHANGED <<condLock, owns, hist, condition_sender, capPc>>
    /\ UNCHANGED <<setupVars, pureVars, backend, parking, frames, pushCond, senderAlive, streamActive,
                   op, calls>>

\* mutant: wake() clearing the flag without notify_one()
wake_NoNotify(cap) == [parking |-> FALSE, capPc |-> cap]

\* RecorderWaker::wake: parking = false; notify_one() makes a thread blocked in
\* condvar.wait() runnable again (it re-locks and re-reads the flag)
wake(cap) == [parking |-> FALSE,
              capPc |-> IF cap = "wait_blocked" THEN "wait" ELSE cap]

\* mutant: sleep() clearing the flag instead of setting it
sleep_ClearsFlag(cap) == [parking |-> FALSE, capPc |-> cap]

\* RecorderWaker::sleep: parking = true, nobody is notified
sleep(cap) == [parking |-> TRUE, capPc |-> cap]

\* self.recorder_waker.wake()? of start() and stop(), then Ok(())
Wake(c) ==
    /\ pc[c] = "wake"
    /\ parking' = wake(capPc).parking
    /\ capPc' = wake(capPc).capPc
    /\ Return(c, "Ok")
    /\ UNCHANGED <<setupVars, pureVars, backend, condition, frames, pushCond, senderAlive,
                   condition_sender, streamActive, op, calls>>

\* self.recorder_waker.sleep()? of pause(), then Ok(())
Sleep(c) ==
    /\ pc[c] = "sleep"
    /\ parking' = sleep(capPc).parking
    /\ capPc' = sleep(capPc).capPc
    /\ Return(c, "Ok")
    /\ UNCHANGED <<setupVars, pureVars, backend, condition, frames, pushCond, senderAlive,
                   condition_sender, streamActive, op, calls>>

CallerStep(c) == Lock(c) \/ Body(c) \/ Wake(c) \/ Sleep(c)

(***************************************************************************)
(* The frame channel.  The receiver is kept by the consumer for the whole  *)
(* behaviour, so Sender::send succeeds.                                    *)
(***************************************************************************)
\* sender.send(Frame::new(..)): one more frame, pushed while the Condition read cur
Push(n) == IF n < MaxFrames THEN n + 1 ELSE n

(***************************************************************************)
(* Polling backend: the thread spawned by XorgVideoRecorder::on_frame.     *)
(***************************************************************************)
\* mutant: wait() returning without testing the flag
wait_IgnoresFlag(p) == "cond_lock"

\* RecorderWaker::wait: returns when parking is false, else blocks on the condvar
wait(p) == IF p THEN "wait_blocked" ELSE "cond_lock"

\* recorder_waker.wait(): lock parking, test the flag
Wait ==
    /\ backend = "polling"
    /\ capPc = "wait"
    /\ capPc' = wait(parking)
    /\ UNCHANGED <<setupVars, pureVars, backend, condition, condLock, parking, frames, pushCond,
                   senderAlive, condition_sender, streamActive, pc, op, owns,
                   calls, hist>>

\* Condvar::wait may return without a notification
SpuriousWakeup ==
    /\ backend = "polling"
    /\ capPc = "wait_blocked"
    /\ capPc' = "wait"
    /\ UNCHANGED <<setupVars, pureVars, backend, condition, condLock, parking, frames, pushCond,
                   senderAlive, condition_sender, streamActive, pc, op, owns,
                   calls, hist>>

\* what the loop does after reading the Condition under the lock
on_frame_check(cur) == IF cur = "Running" THEN "capture" ELSE "exited"

\* cond.lock(), then `if !cond.is_running() { drop(sender); break Ok(()) }`
LockCond ==
    /\ backend = "polling"
    /\ capPc = "cond_lock"
    /\ condLock = "free"
    /\ capPc' = on_frame_check(condition)
    /\ IF on_frame_check(condition) = "exited"
       THEN /\ senderAlive' = FALSE
            /\ UNCHANGED condLock
       ELSE /\ condLock' = "capture"
            /\ UNCHANGED senderAlive
    /\ UNCHANGED <<setupVars, pureVars, backend, condition, parking, frames, pushCond,
                   condition_sender, streamActive, pc, op, owns, calls, hist>>

\* monitor.capture_image() is Ok: the frame is sent (the guard is still held)
CaptureOk ==
    /\ backend = "polling"
    /\ capPc = "capture"
    /\ frames' = Push(frames)
    /\ pushCond' = condition
    /\ capPc' = "pace"
    /\ UNCHANGED <<setupVars, pureVars, backend, condition, condLock, parking, senderAlive,
                   condition_sender, streamActive, pc, op, owns, calls, hist>>

\* mutant: a failed capture ending the thread the way a failed send does
CaptureErr_Breaks ==
    /\ backend = "polling"
    /\ capPc = "capture"
    /\ capPc' = "exited"
    /\ senderAlive' = FALSE
    /\ condLock' = "free"
    /\ UNCHANGED <<setupVars, pureVars, backend, condition, parking, frames, pushCond,
                   condition_sender, streamActive, pc, op, owns, calls, hist>>

\* monitor.capture_image() is Err: logged, the 10 ms backoff follows
CaptureErr ==
    /\ backend = "polling"
    /\ capPc = "capture"
    /\ capPc' = "backoff"
    /\ UNCHANGED <<setupVars, pureVars, backend, condition, condLock, parking, frames, pushCond,
                   senderAlive, condition_sender, streamActive, pc, op, owns,
                   calls, hist>>

\* thread::sleep(1 ms) or thread::sleep(10 ms) is over: the iteration ends,
\* the guard on the Condition is dropped, the loop goes back to wait()
EndIteration ==
    /\ backend = "polling"
    /\ capPc \in {"pace", "backoff"}
    /\ condLock' = "free"
    /\ capPc' = "wait"
    /\ UNCHANGED <<setupVars, pureVars, backend, condition, parking, frames, pushCond, senderAlive,
                   condition_sender, streamActive, pc, op, owns, calls, hist>>

PollingThread == Wait \/ LockCond \/ CaptureOk \/ CaptureErr \/ EndIteration

(***************************************************************************)
(* Portal backend: the thread spawned by pipewire_capturer.  It runs a     *)
(* single-threaded main loop; the `process` callback and the handler       *)
(* attached to the control channel are dispatched by that loop.            *)
(***************************************************************************)
\* MainLoopRc::new, ContextRc::new, connect_rc, StreamRc::new, register and
\* stream.connect(AUTOCONNECT | MAP_BUFFERS) all succeed: the stream is
\* connected (and active), the control receiver is attached, main_loop.run()
SetupOk ==
    /\ backend = "portal"
    /\ capPc = "setup"
    /\ capPc' = "loop"
    /\ streamActive' = TRUE
    /\ UNCHANGED <<setupVars, pureVars, backend, condition, condLock, parking, frames, pushCond,
                   senderAlive, condition_sender, pc, op, owns, calls, hist>>

\* one of them fails: `?` ends the thread, the closure's captures are dropped
SetupErr ==
    /\ backend = "portal"
    /\ capPc = "setup"
    /\ capPc' = "exited"
    /\ senderAlive' = FALSE
    /\ UNCHANGED <<setupVars, pureVars, backend, condition, condLock, parking, frames, pushCond,
                   condition_sender, streamActive, pc, op, owns, calls, hist>>

\* the process callback starts: `condition.lock()` (held until it returns)
ProcessLock ==
    /\ backend = "portal"
    /\ capPc = "loop"
    /\ streamActive
    /\ condLock = "free"
    /\ condLock' = "capture"
    /\ capPc' = "process"
    /\ UNCHANGED <<setupVars, pureVars, backend, condition, parking, frames, pushCond, senderAlive,
                   condition_sender, streamActive, pc, op, owns, calls, hist>>

\* mutant: the process callback sending every converted buffer
process_delivers_Ungated(converted, cur) == converted

\* `if state.is_running() { let _ = sender.send(..) }` on a converted buffer
process_delivers(converted, cur) == converted /\ cur = "Running"

\* the rest of the process callback: dequeue_buffer, conversion (or an early
\* return: no buffer, no data, unsupported format), gated delivery
Process(converted) ==
    /\ backend = "portal"
    /\ capPc = "process"
    /\ IF process_delivers(converted, condition)
       THEN /\ frames' = Push(frames)
            /\ pushCond' = condition
       ELSE UNCHANGED <<frames, pushCond>>
    /\ condLock' = "free"
    /\ capPc' = "loop"
    /\ UNCHANGED <<setupVars, pureVars, backend, condition, parking, senderAlive, condition_sender,
                   streamActive, pc, op, owns, calls, hist>>

\* the closure attached to the control receiver, for one message `cond`;
\* st = [active, quit]; fail: stream.set_active returned Err
control_handler(cond, st, fail) ==
    IF fail THEN st
    ELSE [active |-> (cond = "Running"),
          quit |-> (st.quit \/ cond = "Stopped")]

\* the attached receiver drains the queue, calling the handler per message
RECURSIVE drain(_, _, _, _)
drain(q, i, st, fails) ==
    IF i > Len(q) THEN st
    ELSE drain(q, i + 1, control_handler(q[i], st, i \in fails), fails)

\* the loop dispatches the control channel; after main_loop.quit() the run
\* loop returns, the thread ends and the frame Sender is dropped
Control(fails) ==
    /\ backend = "portal"
    /\ capPc = "loop"
    /\ condition_sender # <<>>
    /\ LET st == drain(condition_sender, 1,
                       [active |-> streamActive, quit |-> FALSE], fails) IN
        /\ streamActive' = st.active
        /\ capPc' = IF st.quit THEN "exited" ELSE "loop"
        /\ senderAlive' = ~st.quit
    /\ condition_sender' = <<>>
    /\ UNCHANGED <<setupVars, pureVars, backend, condition, condLock, parking, frames, pushCond,
                   pc, op, owns, calls, hist>>

\* thread start-up, one way or the other
Setup == SetupOk \/ SetupErr

\* the body of a process callback that has started
ProcessCallback == \E converted \in BOOLEAN : Process(converted)

\* a dispatch of the control channel; set_active may fail for any message
ControlDispatch == \E fails \in SUBSET (1..Len(condition_sender)) : Control(fails)

PortalThread == Setup \/ ProcessCallback \/ ControlDispatch

(***************************************************************************)
(* Cursor modes: the bit flags of dbus/screencast.rs.                      *)
(***************************************************************************)
\* bitflags CursorModes: Hidden = 1 << 0, Embedded = 1 << 1, Metadata = 1 << 2
CursorModes == {"Hidden", "Embedded", "Metadata"}

bit(m) == CASE m = "Hidden" -> 1 [] m = "Embedded" -> 2 [] m = "Metadata" -> 4

\* the u32 behind a flag set
bits(self) == (IF "Hidden" \in self THEN bit("Hidden") ELSE 0)
              + (IF "Embedded" \in self THEN bit("Embedded") ELSE 0)
              + (IF "Metadata" \in self THEN bit("Metadata") ELSE 0)

\* From<OwnedValue> for CursorModes: from_bits_truncate drops unknown bits
from_bits_truncate(v) == {m \in CursorModes : (v \div bit(m)) % 2 = 1}

\* the values the AvailableCursorModes property can carry: one unknown bit
\* above the three known ones
RawCursorModes == 0..15

\* CursorModes::is_hidden_available: self.bitand(Hidden | Metadata) > Hidden,
\* the derived Ord comparing the bits
is_hidden_available(self) ==
    LET EXPECTED == {"Hidden", "Metadata"} IN
    bits(self \cap EXPECTED) > bits({"Hidden"})

\* mutant: best_mode never preferring a visible cursor
best_mode_IgnoresShow(self, show) ==
    IF "Hidden" \in self THEN "Hidden" ELSE "Metadata"

\* CursorModes::best_mode
best_mode(self, show) ==
    IF show /\ "Embedded" \in self THEN "Embedded"
    ELSE IF show /\ "Metadata" \in self THEN "Metadata"
    ELSE IF "Hidden" \in self THEN "Hidden"
    ELSE "Metadata"

\* a property value that does not downcast to u32
NotU32 == -1
NoModes == {"none"}
NoFrame == [width |-> 0, height |-> 0, raw |-> <<>>]

\* impl From<OwnedValue> for CursorModes: a u32 is truncated to the known
\* bits, any other value gives the empty set
CursorModes_from(value) == IF value = NotU32 THEN {} ELSE from_bits_truncate(value)

\* no single value is under conversion
PureIdle ==
    /\ cm_value = 0
    /\ cm_modes = NoModes
    /\ cm_show = FALSE
    /\ cm_best = "None"
    /\ cm_hidden = "None"
    /\ format = "RGBA"
    /\ size = [width |-> 1, height |-> 1]
    /\ frame_data = <<>>
    /\ sent = NoFrame
    /\ parkingLock = "free"

(***************************************************************************)
(* Portal Protocol Client: ScreenCast::new and the three calls of          *)
(* WaylandVideoRecorder::new, each through on_blocking_response.           *)
(***************************************************************************)
\* number of distinct values rand::random::<u32>() takes in the model
NumTokens == 3
\* the portal versions considered: 1..MaxVersion
MaxVersion == 4

NoToken == <<>>
NoSession == <<>>
\* a result dictionary: the keys present and their values
NoResults == [keys |-> {}, session_handle |-> NoSession, streams |-> <<>>,
              restore_token |-> NoToken]
NoResponse == [code |-> "None", results |-> NoResults]

\* bitflags ScreenCastFlag
ScreenCastFlag == {"HideCursor", "EnableMulti", "SavePermission"}
\* WaylandVideoRecorder::new: const FLAGS = ScreenCastFlag::empty()
FLAGS == {}

\* dbus/mod.rs: TOKEN_HANDLE_PREFIX, generate_token_handle
TOKEN_HANDLE_PREFIX == "xcap_"
generate_token_handle == {<<TOKEN_HANDLE_PREFIX, n>> : n \in 1..NumTokens}

\* dbus/mod.rs: SESSION_TOKEN_HANDLE_PREFIX, generate_session_handle
SESSION_TOKEN_HANDLE_PREFIX == "xcap_sess_"
generate_session_handle == {<<SESSION_TOKEN_HANDLE_PREFIX, n>> : n \in 1..NumTokens}

\* dbus/request.rs: REQUEST_PATH_PREFIX; dbus/session.rs: SESSION_PATH_PREFIX
REQUEST_PATH_PREFIX == "/org/freedesktop/portal/desktop/request"
SESSION_PATH_PREFIX == "/org/freedesktop/portal/desktop/session"

\* conn.unique_name(): the bus connection's own identity
unique_name == "1_42"

\* dbus/request.rs: enum ResponseCode
ResponseCode == {"Success", "Cancelled", "Failed"}

\* mutant: request_handle_path formatting a fixed token instead of its argument
request_handle_path_FixedToken(conn, token) ==
    <<REQUEST_PATH_PREFIX, conn, <<TOKEN_HANDLE_PREFIX, 1>>>>

\* request_handle_path: "{REQUEST_PATH_PREFIX}/{unique_name}/{token}"
request_handle_path(conn, token) == <<REQUEST_PATH_PREFIX, conn, token>>

\* session_handle_path: "{SESSION_PATH_PREFIX}/{unique_name}/{token}"
session_handle_path(conn, token) == <<SESSION_PATH_PREFIX, conn, token>>

\* the object path at which the portal emits the Response of a call made by
\* `sender` with options.handle_token = token
PortalRequestPath(sender, token) ==
    <<"/org/freedesktop/portal/desktop/request", sender, token>>

\* the object path of the session the portal creates for a CreateSession call
\* made by `sender` with options.session_handle_token = token
PortalSessionPath(sender, token) ==
    <<"/org/freedesktop/portal/desktop/session", sender, token>>

\* a session path that is not the one the client asked for
ForeignSessionPath == <<"/org/freedesktop/portal/desktop/session", "1_7", "other">>

\* the restore tokens in play: one already in the file, one the portal hands out
StoredToken == <<"restore", 1>>
IssuedToken == <<"restore", 2>>

\* the result dictionaries the portal may attach to the Response of a call
PortalResults(r) ==
    CASE r.method = "CreateSession" ->
            {NoResults} \cup
            {[NoResults EXCEPT !.keys = {"session_handle"}, !.session_handle = h] :
                h \in {ForeignSessionPath,
                       PortalSessionPath(unique_name, r.options.session_handle_token)}}
      [] r.method = "SelectSources" -> {NoResults}
      [] OTHER ->
            {[NoResults EXCEPT
                !.keys = ks,
                !.streams = IF "streams" \in ks THEN st ELSE <<>>,
                !.restore_token = IF "restore_token" \in ks THEN IssuedToken ELSE NoToken] :
                ks \in SUBSET {"streams", "restore_token"},
                st \in {<<>>, <<[pipewire_node_id |-> 42]>>}}

\* FromResponse::try_from_response of the type each call deserializes into:
\* CreateSessionResponse needs "session_handle", () needs nothing,
\* StartResponse needs "streams"
try_from_response(method, results) ==
    CASE method = "CreateSession" -> "session_handle" \in results.keys
      [] method = "SelectSources" -> TRUE
      [] OTHER -> "streams" \in results.keys

\* WaylandVideoRecorder::new: the calls in order
SetupCalls == <<"CreateSession", "SelectSources", "Start">>

\* WaylandVideoRecorder::new: const SOURCES; select_sources: const PERSIST_MODE
SOURCES == "Monitor"
PERSIST_MODE == "None"

\* mutant: construction going on to the next call whatever the call returned
after_call_IgnoresFailure(step, ok) ==
    CASE step = "CreateSession" -> "SelectSources"
      [] step = "SelectSources" -> "Start"
      [] OTHER -> "pipewire_capturer"

\* the step after a call, given how the call ended
after_call(step, ok) ==
    IF ~ok THEN "failed"
    ELSE CASE step = "CreateSession" -> "SelectSources"
           [] step = "SelectSources" -> "Start"
           [] OTHER -> "pipewire_capturer"

\* ScreenCast::new after the proxy was built and the version read: the
\* capability checks in the order of the code, then the fields of the ScreenCast
ScreenCast_new(fl, v, modes, file) ==
    LET hide == "HideCursor" \in fl
        save == "SavePermission" \in fl
        err == IF hide /\ v < 2 THEN "Capability"
               ELSE IF hide /\ ~is_hidden_available(modes) THEN "Capability"
               ELSE IF save /\ v < 4 THEN "Capability"
               ELSE "None"
    IN  [error |-> err,
         cursor_modes |-> IF err = "None" /\ hide THEN modes ELSE {},
         restore_token |-> IF err = "None" /\ save THEN file ELSE NoToken]

\* ScreenCast::new(FLAGS, SOURCES)?; `fails` stands for a `?` on the bus or
\* on the token file
ScreenCastNew(fails) ==
    /\ setupStep = "ScreenCast::new"
    /\ LET sc == ScreenCast_new(flags, version,
                                from_bits_truncate(available_cursor_modes), token_file)
           err == IF fails THEN "Bus" ELSE sc.error
       IN  /\ error' = err
           /\ setupStep' = IF err = "None" THEN "CreateSession" ELSE "failed"
           /\ cursor_modes' = IF fails THEN {} ELSE sc.cursor_modes
           /\ restore_token' = IF fails THEN NoToken ELSE sc.restore_token
    /\ UNCHANGED <<recVars, pureVars, protoVars, flags, version, available_cursor_modes, token_file,
                   sessVars, issued, obr_result>>

\* mutant: on_blocking_response issuing the call before it subscribes
on_blocking_response_CallFirst == <<"call", "subscribe", "next">>

\* on_blocking_response: receive_response() on the proxy at
\* request_handle_path, then f(), then resp_it.next()
on_blocking_response == <<"subscribe", "call", "next">>

InCall == setupStep \in {"CreateSession", "SelectSources", "Start"}

\* create_session / select_sources / start: generate_token_handle() (and
\* generate_session_handle() in create_session), then
\* on_blocking_response(conn, handle_token, ..)
GenerateToken(t, st) ==
    /\ InCall
    /\ obrPc = 0
    /\ handle_token' = t
    /\ session_handle_token' = IF setupStep = "CreateSession" THEN st
                               ELSE session_handle_token
    /\ obrPc' = 1
    /\ UNCHANGED <<recVars, pureVars, setupStep, subscribed, portalRequests, resp_it, emitted, received,
                   lostResponses, castVars, session, portalSessions, logVars>>

\* RequestProxyBlocking::new(conn, request_handle_path)?.receive_response()?
Subscribe ==
    /\ InCall
    /\ obrPc \in 1..3
    /\ on_blocking_response[obrPc] = "subscribe"
    /\ subscribed' = subscribed \cup {request_handle_path(unique_name, handle_token)}
    /\ obrPc' = obrPc + 1
    /\ UNCHANGED <<recVars, pureVars, setupStep, handle_token, portalRequests, resp_it, emitted, received,
                   lostResponses, castVars, sessVars, logVars>>

\* the options dictionary each method passes
Options(method) ==
    CASE method = "CreateSession" ->
            [handle_token |-> handle_token, session_handle_token |-> session_handle_token]
      [] method = "SelectSources" ->
            [handle_token |-> handle_token,
             types |-> SOURCES,
             multiple |-> "EnableMulti" \in flags,
             cursor_mode |-> best_mode(cursor_modes, "HideCursor" \in flags),
             restore_token |-> IF restore_token # NoToken /\ "SavePermission" \in flags
                               THEN restore_token ELSE NoToken,
             persist_mode |-> PERSIST_MODE]
      [] OTHER -> [handle_token |-> handle_token]

\* the method call as it reaches the portal
Request == [method |-> setupStep, session |-> session, options |-> Options(setupStep)]

\* f()?: the method call, with the token in options.handle_token, reaches the portal
IssueCall ==
    /\ InCall
    /\ obrPc \in 1..3
    /\ on_blocking_response[obrPc] = "call"
    /\ portalRequests' = portalRequests \cup {Request}
    /\ issued' = Append(issued, Request.method)
    /\ obrPc' = obrPc + 1
    /\ UNCHANGED <<recVars, pureVars, setupStep, handle_token, subscribed, resp_it, emitted, received,
                   lostResponses, castVars, sessVars, obr_result, error>>

\* f()? fails (the method call itself returns an error): the error is returned
IssueCallErr ==
    /\ InCall
    /\ obrPc \in 1..3
    /\ on_blocking_response[obrPc] = "call"
    /\ setupStep' = "failed"
    /\ obr_result' = "Err"
    /\ error' = "Call"
    /\ obrPc' = 0
    /\ handle_token' = NoToken
    /\ subscribed' = {}
    /\ resp_it' = <<>>
    /\ UNCHANGED <<recVars, pureVars, portalRequests, emitted, received, lostResponses,
                   castVars, sessVars, issued>>

\* the portal answers a call: one Response signal at the request's path; the
\* client's connection queues it for a subscriber, or drops it.  A successful
\* CreateSession leaves a session open at the portal.
PortalRespond(r, code, results) ==
    /\ r \in portalRequests
    /\ portalRequests' = portalRequests \ {r}
    /\ portalSessions' =
          IF r.method = "CreateSession" /\ code = "Success"
          THEN portalSessions
                 \cup {PortalSessionPath(unique_name, r.options.session_handle_token)}
          ELSE portalSessions
    /\ LET sig == [code |-> code, results |-> results] IN
        /\ emitted' = sig
        /\ IF PortalRequestPath(unique_name, r.options.handle_token) \in subscribed
           THEN /\ resp_it' = Append(resp_it, sig)
                /\ UNCHANGED lostResponses
           ELSE /\ lostResponses' = TRUE
                /\ UNCHANGED resp_it
    /\ UNCHANGED <<recVars, pureVars, setupStep, obrPc, handle_token, subscribed, received,
                   castVars, session_handle_token, session, logVars>>

\* mutant: every response code taken for Success
is_success_AnyCode(resp) == resp.code \in ResponseCode

\* Responses::is_success
is_success(resp) == resp.code = "Success"

\* mutant: create_session accepting whatever handle the Response carries
session_matches_Unchecked(session_path, resp) == "session_handle" \in resp.results.keys

\* create_session: session_path.as_str() != resp.session_handle.as_str()
session_matches(session_path, resp) == session_path = resp.results.session_handle

\* how the ScreenCast method ends for the Response next() returned: the error
\* of on_blocking_response when try_deserialize fails, else the method's own
\* checks of the code and (create_session) of the session handle
call_error(method, resp, stoken) ==
    IF ~try_from_response(method, resp.results) THEN "Deserialize"
    ELSE IF ~is_success(resp) THEN "Portal"
    ELSE IF method = "CreateSession"
            /\ ~session_matches(session_handle_path(unique_name, stoken), resp)
         THEN "HandleMismatch"
    ELSE "None"

call_succeeds(method, resp, stoken) == call_error(method, resp, stoken) = "None"

\* resp_it.next() returns the queued Response; on_blocking_response returns
\* (its proxy and stream are dropped) and the ScreenCast method checks it
NextResponse ==
    /\ InCall
    /\ obrPc \in 1..3
    /\ on_blocking_response[obrPc] = "next"
    /\ resp_it # <<>>
    /\ LET resp == Head(resp_it)
           err == call_error(setupStep, resp, session_handle_token)
       IN  /\ received' = resp
           /\ obr_result' = IF err = "Deserialize" THEN "Err" ELSE "Ok"
           /\ error' = err
           /\ session' = IF setupStep = "CreateSession" /\ err = "None"
                         THEN session_handle_path(unique_name, session_handle_token)
                         ELSE session
           /\ setupStep' = after_call(setupStep,
                                      call_succeeds(setupStep, resp, session_handle_token))
    /\ resp_it' = <<>>
    /\ subscribed' = {}
    /\ obrPc' = 0
    /\ handle_token' = NoToken
    /\ UNCHANGED <<recVars, pureVars, portalRequests, emitted, lostResponses,
                   castVars, session_handle_token, portalSessions, issued>>

\* WaylandVideoRecorder::new after start(): the node id of the first stream,
\* the recorder, and pipewire_capturer, which spawns the event loop thread
SpawnCapturer ==
    /\ setupStep = "pipewire_capturer"
    /\ IF received.results.streams = <<>>
       THEN /\ setupStep' = "failed"
            /\ error' = "StreamId"
            /\ UNCHANGED capPc
       ELSE /\ setupStep' = "constructed"
            /\ capPc' = "setup"
            /\ UNCHANGED error
    /\ UNCHANGED <<backend, condition, condLock, parking, frames, pushCond, senderAlive,
                   condition_sender, streamActive, pc, op, owns, calls, hist,
                   protoVars, castVars, sessVars, issued, obr_result, pureVars>>

ClientStep ==
    \/ \E fails \in BOOLEAN : ScreenCastNew(fails)
    \/ \E t \in generate_token_handle, st \in generate_session_handle : GenerateToken(t, st)
    \/ Subscribe
    \/ IssueCall
    \/ IssueCallErr
    \/ NextResponse
    \/ SpawnCapturer

PortalStep ==
    \E r \in portalRequests, code \in ResponseCode :
        \E results \in PortalResults(r) : PortalRespond(r, code, results)

\* WaylandVideoRecorder::new is entered: no recorder and no thread yet
SetupInit ==
    /\ backend = "portal"
    /\ condition = "Init"
    /\ condLock = "free"
    /\ parking = TRUE
    /\ capPc = "unspawned"
    /\ frames = 0
    /\ pushCond = NoCond
    /\ senderAlive = TRUE
    /\ condition_sender = <<>>
    /\ streamActive = FALSE
    /\ pc = [c \in Callers |-> "idle"]
    /\ op = [c \in Callers |-> "stop"]
    /\ owns = [c \in Callers |-> c = FirstCaller]
    /\ calls = 0
    /\ hist = <<>>
    /\ setupStep = "ScreenCast::new"
    /\ obrPc = 0
    /\ handle_token = NoToken
    /\ subscribed = {}
    /\ portalRequests = {}
    /\ resp_it = <<>>
    /\ emitted = NoResponse
    /\ received = NoResponse
    /\ lostResponses = FALSE
    /\ flags \in SUBSET ScreenCastFlag
    /\ version \in 1..MaxVersion
    /\ available_cursor_modes \in RawCursorModes
    /\ token_file \in {NoToken, StoredToken}
    /\ cursor_modes = {}
    /\ restore_token = NoToken
    /\ session_handle_token = NoToken
    /\ session = NoSession
    /\ portalSessions = {}
    /\ issued = <<>>
    /\ obr_result = "None"
    /\ error = "None"
    /\ PureIdle

SetupNext == ClientStep \/ PortalStep

SetupSpec == SetupInit /\ [][SetupNext]_vars

\* the client thread runs; the portal answers the calls it has received
SetupFairSpec ==
    /\ SetupSpec
    /\ WF_vars(ClientStep)
    /\ WF_vars(PortalStep)

(***************************************************************************)
(* The recorder at run time.                                               *)
(***************************************************************************)
RecorderNext ==
    \/ \E c \in Callers, o \in Ops : Call(c, o)
    \/ \E c, d \in Callers : Clone(c, d)
    \/ \E c \in Callers : CallerStep(c)
    \/ PollingThread
    \/ SpuriousWakeup
    \/ PortalThread
    \/ ProcessLock

\* construction is over: WaylandVideoRecorder::new went through with FLAGS
\* and left its session at the portal; the polling backend makes no portal call
SetupOver ==
    /\ setupStep = "constructed"
    /\ obrPc = 0
    /\ handle_token = NoToken
    /\ subscribed = {}
    /\ portalRequests = {}
    /\ resp_it = <<>>
    /\ emitted = NoResponse
    /\ received = NoResponse
    /\ lostResponses = FALSE
    /\ flags = FLAGS
    /\ version = 1
    /\ available_cursor_modes = 0
    /\ token_file = NoToken
    /\ cursor_modes = {}
    /\ restore_token = NoToken
    /\ session_handle_token = NoToken
    /\ session = IF backend = "portal"
                 THEN session_handle_path(unique_name, <<SESSION_TOKEN_HANDLE_PREFIX, 1>>)
                 ELSE NoSession
    /\ portalSessions = IF backend = "portal" THEN {session} ELSE {}
    /\ issued = <<>>
    /\ obr_result = "None"
    /\ error = "None"

Init == RecorderInit /\ SetupOver /\ PureIdle

Next == RecorderNext

Spec == Init /\ [][Next]_vars

\* Threads that can run do run: a caller inside a call, the capture thread.
\* The main loop polls all its sources on every iteration, so a readable
\* control channel is dispatched even if buffers keep arriving (strong
\* fairness).  Nothing obliges a caller to issue a call, the source to produce
\* a buffer, or the condition variable to wake spuriously.
FairSpec ==
    /\ Spec
    /\ \A c \in Callers : WF_vars(CallerStep(c))
    /\ WF_vars(PollingThread)
    /\ WF_vars(Setup)
    /\ WF_vars(ProcessCallback)
    /\ SF_vars(ControlDispatch)

(***************************************************************************)
(* The polling backend alone: XorgVideoRecorder, its RecorderWaker and the *)
(* thread of on_frame.                                                     *)
(***************************************************************************)
PollingInit == Init /\ backend = "polling"

PollingNext ==
    \/ \E c \in Callers, o \in Ops : Call(c, o)
    \/ \E c, d \in Callers : Clone(c, d)
    \/ \E c \in Callers : CallerStep(c)
    \/ PollingThread
    \/ SpuriousWakeup

PollingSpec == PollingInit /\ [][PollingNext]_vars

\* a caller inside a call and the capture thread run when they can; the
\* condition variable owes no spurious wakeup
PollingFairSpec ==
    /\ PollingSpec
    /\ \A c \in Callers : WF_vars(CallerStep(c))
    /\ WF_vars(PollingThread)

(***************************************************************************)
(* The polling backend with the mutex of the RecorderWaker taken and       *)
(* released in steps of its own.  start(), pause() and stop() call wake()  *)
(* or sleep() while they hold the guard on the Condition; the thread of    *)
(* on_frame calls wait() while it holds no guard.                          *)
(***************************************************************************)
Threads == Callers \cup {"capture"}

\* `self.parking.lock()?` of wake() or sleep(): blocks until the mutex is free
WakerLock(c) ==
    /\ pc[c] \in {"wake", "sleep"}
    /\ parkingLock = "free"
    /\ parkingLock' = c
    /\ UNCHANGED <<recVars, setupVars, cursorVars, frameVars>>

\* the rest of wake() or sleep() under the guard: the flag is written (and
\* notify_one called), the guard on parking is dropped, then Ok(()) and the
\* guard on the Condition is dropped
WakerWrite(c) ==
    /\ pc[c] \in {"wake", "sleep"}
    /\ parkingLock = c
    /\ LET w == IF pc[c] = "wake" THEN wake(capPc) ELSE sleep(capPc) IN
        /\ parking' = w.parking
        /\ capPc' = w.capPc
    /\ parkingLock' = "free"
    /\ Return(c, "Ok")
    /\ UNCHANGED <<setupVars, cursorVars, frameVars, backend, condition, frames, pushCond,
                   senderAlive, condition_sender, streamActive, op, calls>>

\* `self.parking.lock()?` of wait(), also when Condvar::wait re-locks
WaitLock ==
    /\ capPc = "wait"
    /\ parkingLock = "free"
    /\ parkingLock' = "capture"
    /\ capPc' = "wait_test"
    /\ UNCHANGED <<setupVars, cursorVars, frameVars, backend, condition, condLock, parking,
                   frames, pushCond, senderAlive, condition_sender, streamActive, pc, op,
                   owns, calls, hist>>

\* mutant: wait() returning with the guard on parking still held
WaitTest_KeepsGuard ==
    /\ capPc = "wait_test"
    /\ capPc' = wait(parking)
    /\ parkingLock' = IF parking THEN "free" ELSE "capture"
    /\ UNCHANGED <<setupVars, cursorVars, frameVars, backend, condition, condLock, parking,
                   frames, pushCond, senderAlive, condition_sender, streamActive, pc, op,
                   owns, calls, hist>>

\* `while *parking { parking = self.condvar.wait(parking)? }`: Condvar::wait
\* releases the mutex and blocks; with the flag false wait() returns and the
\* guard is dropped
WaitTest ==
    /\ capPc = "wait_test"
    /\ capPc' = wait(parking)
    /\ parkingLock' = "free"
    /\ UNCHANGED <<setupVars, cursorVars, frameVars, backend, condition, condLock, parking,
                   frames, pushCond, senderAlive, condition_sender, streamActive, pc, op,
                   owns, calls, hist>>

MutexInit == PollingInit

MutexNext ==
    \/ \E c \in Callers, o \in Ops : Call(c, o)
    \/ \E c, d \in Callers : Clone(c, d)
    \/ \E c \in Callers : Lock(c)
    \/ \E c \in Callers : Body(c)
    \/ \E c \in Callers : WakerLock(c)
    \/ \E c \in Callers : WakerWrite(c)
    \/ WaitLock
    \/ WaitTest
    \/ SpuriousWakeup
    \/ LockCond
    \/ CaptureOk
    \/ CaptureErr
    \/ EndIteration

MutexSpec == MutexInit /\ [][MutexNext]_vars

(***************************************************************************)
(* The cursor-mode functions applied to a value of the portal's            *)
(* AvailableCursorModes property.                                          *)
(***************************************************************************)
\* proxy.available_cursor_modes(): the value becomes a CursorModes
FromValue ==
    /\ cm_modes = NoModes
    /\ cm_modes' = CursorModes_from(cm_value)
    /\ UNCHANGED <<recVars, setupVars, cm_value, cm_show, cm_best, cm_hidden, frameVars, mutexVars>>

\* mutant: the caller passing the opposite preference
BestMode_PreferenceInverted(show) ==
    /\ cm_modes # NoModes
    /\ cm_show' = show
    /\ cm_best' = best_mode(cm_modes, ~show)
    /\ UNCHANGED <<recVars, setupVars, cm_value, cm_modes, cm_hidden, frameVars, mutexVars>>

\* cursor_modes.best_mode(show)
BestMode(show) ==
    /\ cm_modes # NoModes
    /\ cm_show' = show
    /\ cm_best' = best_mode(cm_modes, show)
    /\ UNCHANGED <<recVars, setupVars, cm_value, cm_modes, cm_hidden, frameVars, mutexVars>>

\* modes.is_hidden_available()
IsHiddenAvailable ==
    /\ cm_modes # NoModes
    /\ cm_hidden' = IF is_hidden_available(cm_modes) THEN "true" ELSE "false"
    /\ UNCHANGED <<recVars, setupVars, cm_value, cm_modes, cm_show, cm_best, frameVars, mutexVars>>

CursorInit ==
    /\ RecorderInit
    /\ backend = "portal"
    /\ SetupOver
    /\ cm_value \in RawCursorModes \cup {NotU32}
    /\ cm_modes = NoModes
    /\ cm_show = FALSE
    /\ cm_best = "None"
    /\ cm_hidden = "None"
    /\ format = "RGBA"
    /\ size = [width |-> 1, height |-> 1]
    /\ frame_data = <<>>
    /\ sent = NoFrame
    /\ parkingLock = "free"

CursorNext ==
    \/ FromValue
    \/ \E show \in BOOLEAN : BestMode(show)
    \/ IsHiddenAvailable

CursorSpec == CursorInit /\ [][CursorNext]_vars

(***************************************************************************)
(* The buffer conversion of the process callback, applied to one dequeued  *)
(* buffer under one negotiated format and size.                            *)
(***************************************************************************)
\* the negotiated size is 1..MaxWidth by 1..MaxHeight pixels
MaxWidth == 2
MaxHeight == 1
\* the dequeued buffer holds 0..MaxBuf bytes
MaxBuf == 8
\* the byte values considered
Bytes == {0, 1, 255}

\* the formats the callback converts, and one it does not
VideoFormat == {"RGB", "RGBA", "RGBx", "BGRx", "YUY2"}

Buffers == UNION {[1..n -> Bytes] : n \in 0..MaxBuf}

\* Frame::new
Frame(width, height, raw) == [width |-> width, height |-> height, raw |-> raw]

\* mutant: the RGB arm leaving the alpha byte of the zeroed buffer as it is
rgb_to_rgba_AlphaUnset(sz, data) ==
    [i \in 1..(sz.width * sz.height * 4) |->
        LET px == (i - 1) \div 4
            ch == (i - 1) % 4
        IN  IF px < Len(data) \div 3 /\ ch # 3
            THEN data[px * 3 + ch + 1]
            ELSE 0]

\* VideoFormat::RGB: a zeroed buffer of width * height * 4 bytes; the 3-byte
\* chunks of the source are zipped with its 4-byte chunks, the zip ending with
\* the shorter of the two
rgb_to_rgba(sz, data) ==
    [i \in 1..(sz.width * sz.height * 4) |->
        LET px == (i - 1) \div 4
            ch == (i - 1) % 4
        IN  IF px < Len(data) \div 3
            THEN IF ch = 3 THEN 255 ELSE data[px * 3 + ch + 1]
            ELSE 0]

\* mutant: the BGRx arm rotating the three colour bytes instead of swapping two
bgrx_swap_Rotates(data) ==
    [i \in 1..Len(data) |->
        LET px == (i - 1) \div 4
            ch == (i - 1) % 4
        IN  IF px < Len(data) \div 4
            THEN data[px * 4 + (CASE ch = 0 -> 1 [] ch = 1 -> 2 [] ch = 2 -> 0 [] OTHER -> ch) + 1]
            ELSE data[i]]

\* VideoFormat::BGRx: to_vec(), then swap(0, 2) in every whole 4-byte chunk
bgrx_swap(data) ==
    [i \in 1..Len(data) |->
        LET px == (i - 1) \div 4
            ch == (i - 1) % 4
        IN  IF px < Len(data) \div 4
            THEN data[px * 4 + (CASE ch = 0 -> 2 [] ch = 2 -> 0 [] OTHER -> ch) + 1]
            ELSE data[i]]

\* the match on user_data.format.format(): the bytes of the Frame
convert(fmt, sz, data) ==
    CASE fmt = "RGB" -> rgb_to_rgba(sz, data)
      [] fmt = "RGBA" -> data
      [] fmt = "RGBx" -> data
      [] OTHER -> bgrx_swap(data)

\* the process callback from the dequeued buffer to sender.send, in a state
\* where the Condition is Running: an unsupported format is logged and the
\* callback returns
ProcessBuffer ==
    /\ sent = NoFrame
    /\ sent' = IF format \in {"RGB", "RGBA", "RGBx", "BGRx"}
               THEN Frame(size.width, size.height, convert(format, size, frame_data))
               ELSE sent
    /\ UNCHANGED <<recVars, setupVars, cursorVars, mutexVars, format, size, frame_data>>

FrameInit ==
    /\ RecorderInit
    /\ backend = "portal"
    /\ SetupOver
    /\ cm_value = 0
    /\ cm_modes = NoModes
    /\ cm_show = FALSE
    /\ cm_best = "None"
    /\ cm_hidden = "None"
    /\ format \in VideoFormat
    /\ size \in [width : 1..MaxWidth, height : 1..MaxHeight]
    /\ frame_data \in Buffers
    /\ sent = NoFrame
    /\ parkingLock = "free"

FrameNext == ProcessBuffer

FrameSpec == FrameInit /\ [][FrameNext]_vars

(***************************************************************************)
(* Properties of the Condition state machine.                              *)
(***************************************************************************)
Entry(o, r) == [op |-> o, res |-> r]

\* caller c's call returns r in this step
Returns(c, r) == pc[c] # "idle" /\ pc'[c] = "idle" /\ hist' = Append(hist, Entry(op[c], r))

Target(o) == CASE o = "start" -> "Running" [] o = "pause" -> "Paused" [] OTHER -> "Stopped"

\* C1: once the Condition is Stopped no step of any thread, on either
\* backend, changes it.
C1_StoppedIsAbsorbing == [][condition = "Stopped" => condition' = "Stopped"]_vars

\* a start() was refused and the Condition is still Stopped
C1_Witness ==
    /\ condition = "Stopped"
    /\ \E i \in 1..Len(hist) : hist[i] = Entry("start", "Err")

\* C2: a start() or pause() that finds the Condition Stopped returns the
\* state error, leaves the Condition Stopped, and notifies nobody: parking is
\* unchanged and nothing is pushed on the control channel.
C2_RefusedWhenStopped ==
    [][\A c \in Callers :
         (pc[c] = "body" /\ pc'[c] # "body" /\ op[c] \in {"start", "pause"}
            /\ condition = "Stopped")
         => /\ Returns(c, "Err")
            /\ condition' = "Stopped"
            /\ parking' = parking
            /\ condition_sender' = condition_sender]_vars

\* a pause() was refused after a stop()
C2_Witness ==
    \E i, j \in 1..Len(hist) :
        i < j /\ hist[i] = Entry("stop", "Ok") /\ hist[j] = Entry("pause", "Err")

\* C3: stop() returns success from every Condition, also when repeated, and
\* the Condition is Stopped when it returns.
C3_StopAlwaysSucceeds ==
    [][\A c \in Callers :
         (op[c] = "stop" /\ pc[c] \in {"body", "wake", "sleep"} /\ pc'[c] # pc[c])
         => /\ condition' = "Stopped"
            /\ pc'[c] = "idle" => Returns(c, "Ok")
            /\ pc'[c] # "idle" => pc'[c] = "wake"]_vars

\* stop() was called from Paused and then again from Stopped
C3_Witness ==
    /\ Len(hist) = 4
    /\ hist[1] = Entry("start", "Ok")
    /\ hist[2] = Entry("pause", "Ok")
    /\ hist[3] = Entry("stop", "Ok")
    /\ hist[4] = Entry("stop", "Ok")
    /\ condition = "Stopped"

(***************************************************************************)
(* Properties of the capture threads.                                      *)
(***************************************************************************)
CaptureThreadAlive == capPc # "exited"

\* C4: in the polling backend a caller that ran start(); pause(); start()
\* finds the capture thread alive and the frame channel open: pause() neither
\* ends the thread nor drops the Sender, whatever the interleaving.
C4_PauseKeepsThreadAlive ==
    (/\ backend = "polling"
     /\ hist = <<Entry("start", "Ok"), Entry("pause", "Ok"), Entry("start", "Ok")>>
     /\ calls = 3)
    => (CaptureThreadAlive /\ senderAlive)

\* C5: on both backends every frame is pushed at a moment when the Condition
\* reads Running; none is pushed while it is Init, Paused or Stopped.
C5_PushOnlyWhenRunning == pushCond \in {NoCond, "Running"}

\* frames were pushed, then pause() returned, and the thread is still there
C5_Witness ==
    /\ frames = MaxFrames
    /\ condition = "Paused"
    /\ CaptureThreadAlive
    /\ \A c \in Callers : pc[c] = "idle"

\* C7: a caller inside start(), pause() or stop() never has to wait for the
\* capture thread: it is never blocked on a lock that thread holds.
C7_NeverBlocksOnCapture ==
    \A c \in Callers : pc[c] = "lock" => condLock # "capture"

\* C8: from a Condition other than Stopped, start() leaves Running and pause()
\* leaves Paused and both return success; a change of the Condition is
\* followed, before the call returns, by the backend's notification: wake
\* (parking false) for start, sleep (parking true) for pause, or the new
\* Condition appended to the control channel.
C8_StartPauseTakeEffect ==
    [][\A c \in Callers :
         op[c] \in {"start", "pause"} =>
           /\ (pc[c] = "body" /\ pc'[c] # "body" /\ condition # "Stopped")
              => /\ condition' = Target(op[c])
                 /\ condition = Target(op[c]) => Returns(c, "Ok")
                 /\ (condition # Target(op[c]) /\ backend = "polling")
                    => /\ pc'[c] = (IF op[c] = "start" THEN "wake" ELSE "sleep")
                       /\ condLock' = c
                 /\ (condition # Target(op[c]) /\ backend = "portal")
                    => /\ Returns(c, "Ok")
                       /\ condition_sender' = Append(condition_sender, Target(op[c]))
           /\ (pc[c] \in {"wake", "sleep"} /\ pc'[c] # pc[c])
              => /\ Returns(c, "Ok")
                 /\ condition' = Target(op[c])
                 /\ parking' = (op[c] = "pause")]_vars

\* a first start() from Init, a pause(), and a start() from Paused: all Ok
C8_Witness ==
    /\ Len(hist) = 3
    /\ hist[1] = Entry("start", "Ok")
    /\ hist[2] = Entry("pause", "Ok")
    /\ hist[3] = Entry("start", "Ok")
    /\ condition = "Running"
    /\ ~parking

(***************************************************************************)
(* Termination of the capture thread.                                      *)
(***************************************************************************)
StopReturned == \E i \in 1..Len(hist) : hist[i].op = "stop"
DropReturned == \E i \in 1..Len(hist) : hist[i].op = "drop"
FrameChannelClosed == ~senderAlive

\* C6: after any calls of start() and pause(), once a stop() has returned the
\* Condition is Stopped, no frame is pushed any more, and the capture thread
\* eventually ends and drops the frame Sender (the receiver sees the channel
\* closed).
C6_StopEndsCapture ==
    /\ [](StopReturned => (condition = "Stopped" /\ pushCond # "Stopped"))
    /\ (StopReturned ~> FrameChannelClosed)

\* C9: dropping a handle performs stop(): once the drop is over the handle is
\* gone, the Condition is Stopped, and the frame channel eventually closes.
C9_DropStopsRecording ==
    /\ [](DropReturned => condition = "Stopped")
    /\ (DropReturned ~> FrameChannelClosed)

(***************************************************************************)
(* Properties of the portal protocol client.                               *)
(***************************************************************************)
\* the portal holds a call it has not answered yet
CallOutstanding == portalRequests # {}

\* the client is subscribed at the path where the portal will answer r
SubscribedFor(r) == PortalRequestPath(unique_name, r.options.handle_token) \in subscribed

\* C10: for CreateSession, SelectSources and Start alike the client is
\* subscribed to the Response at the path derived from the call's token from
\* the moment the call is issued, so no Response is emitted unheard, however
\* early it comes, and the blocked caller gets that Response from next().
C10_SubscribedBeforeCall ==
    /\ [](\A r \in portalRequests : SubscribedFor(r))
    /\ [](~lostResponses)
    /\ (CallOutstanding ~> (obrPc = 0 /\ received = emitted /\ received # NoResponse))

\* all three calls were answered with Success and the answers were received
C10_Witness ==
    /\ setupStep = "constructed"
    /\ is_success(received)
    /\ Len(issued) = Len(SetupCalls)
    /\ ~lostResponses

(***************************************************************************)
(* Properties of the construction of the portal recorder.                  *)
(***************************************************************************)
IsPrefix(s, t) == Len(s) <= Len(t) /\ \A i \in 1..Len(s) : s[i] = t[i]

ConstructionFailed == setupStep = "failed"

\* a remote call is issued in this step
CallIssued == issued' # issued

\* C11: the calls are issued in the order CreateSession, SelectSources, Start,
\* each at most once and each after the first only when the previous call
\* returned a Success response; once a step has failed the error is what
\* construction returns, no further call is issued and no thread is spawned,
\* and the event loop thread exists only after all three calls went through.
C11_CallsInOrderNoRetry ==
    /\ [](IsPrefix(issued, SetupCalls))
    /\ [][CallIssued /\ issued # <<>> => is_success(received) /\ error = "None"]_vars
    /\ [](ConstructionFailed => error # "None" /\ capPc = "unspawned")
    /\ [][ConstructionFailed => UNCHANGED <<setupStep, issued, error, capPc>>]_vars
    /\ [](capPc # "unspawned" => setupStep = "constructed" /\ issued = SetupCalls)

\* SelectSources was answered Cancelled: construction failed after two calls
C11_Witness ==
    /\ ConstructionFailed
    /\ issued = <<"CreateSession", "SelectSources">>
    /\ received.code = "Cancelled"
    /\ error = "Portal"
    /\ portalRequests = {}
    /\ capPc = "unspawned"

(***************************************************************************)
(* Properties of the portal session.                                       *)
(***************************************************************************)
\* the recorder was torn down: a stop() or a drop of a handle has returned
TornDown == StopReturned \/ DropReturned

SessionReleased == portalSessions = {}

\* C12: once the portal recorder has been torn down by stop() or by a drop,
\* Close is invoked on its session: the session is eventually no longer open
\* at the portal.
C12_SessionClosedOnTeardown == (backend = "portal" /\ TornDown) ~> SessionReleased

(***************************************************************************)
(* Properties of the response handling of the three ScreenCast methods.    *)
(***************************************************************************)
\* the Response that next() returned last carries this code
Answered(code) == received # NoResponse /\ received.code = code

\* C13: a call whose Response carries Cancelled or Failed ends in an error
\* returned by the ScreenCast method (from on_blocking_response or from the
\* method's check of the code), never in a successful result: construction
\* has failed as soon as such a Response has been received.
C13_NonSuccessIsError ==
    (Answered("Cancelled") \/ Answered("Failed"))
        => (ConstructionFailed /\ error \in {"Portal", "Deserialize"})

\* Start was answered Failed, with streams in the dictionary: start() returned Err
C13_Witness ==
    /\ Answered("Failed")
    /\ issued = SetupCalls
    /\ "streams" \in received.results.keys
    /\ obr_result = "Ok"
    /\ error = "Portal"
    /\ ConstructionFailed

\* C14: when the portal answers Start with Cancelled and a result dictionary
\* without streams, on_blocking_response returns normally, handing the caller
\* a response whose code is Cancelled.
C14_CancelledStartIsReturned ==
    (Answered("Cancelled") /\ issued = SetupCalls /\ "streams" \notin received.results.keys)
        => obr_result = "Ok"

\* start() has returned Ok: the Start call was answered Success with streams
StartSucceeded ==
    /\ issued = SetupCalls
    /\ obrPc = 0
    /\ Answered("Success")
    /\ obr_result = "Ok"

\* C15: after a Start that succeeded and returned a restore token, the
\* restore-token file holds exactly that token, whatever it held before (so a
\* later ScreenCast::new with SavePermission reads it back).
C15_RestoreTokenStored ==
    (StartSucceeded /\ "restore_token" \in received.results.keys)
        => token_file = received.results.restore_token

\* create_session returns in this step
CreateSessionReturns == setupStep = "CreateSession" /\ obrPc # 0 /\ obrPc' = 0

\* the path the client expects: session-prefix/bus-identity/session_handle_token
ExpectedSession == PortalSessionPath(unique_name, session_handle_token)

\* C16: create_session returns Ok only for a Success Response whose
\* session_handle equals the path built from the session prefix, the bus
\* identity and the session_handle_token it generated, and then returns that
\* path; for a Success Response with any other handle it returns the
\* handle-mismatch error and no session path.
C16_SessionHandleChecked ==
    [][CreateSessionReturns =>
          /\ (setupStep' = "SelectSources" =>
                 /\ is_success(received')
                 /\ received'.results.session_handle = ExpectedSession
                 /\ session' = ExpectedSession)
          /\ (/\ received' # NoResponse
              /\ is_success(received')
              /\ "session_handle" \in received'.results.keys
              /\ received'.results.session_handle # ExpectedSession
              => /\ setupStep' = "failed"
                 /\ error' = "HandleMismatch"
                 /\ session' = NoSession)]_vars

\* CreateSession was answered Success with a foreign handle and was refused
C16_Witness ==
    /\ issued = <<"CreateSession">>
    /\ Answered("Success")
    /\ received.results.session_handle = ForeignSessionPath
    /\ error = "HandleMismatch"
    /\ session = NoSession
    /\ ConstructionFailed

(***************************************************************************)
(* Properties of the capability checks of ScreenCast::new.                 *)
(***************************************************************************)
\* the cursor modes the portal advertises
Advertised == from_bits_truncate(available_cursor_modes)

\* a capability that the flags require is absent
CapabilityMissing ==
    \/ "HideCursor" \in flags /\ (version < 2 \/ "Hidden" \notin Advertised)
    \/ "SavePermission" \in flags /\ version < 4

\* C17: when cursor hiding is requested and the portal is older than version 2
\* or does not advertise Hidden, or permission saving is requested and the
\* portal is older than version 4, construction fails in ScreenCast::new,
\* before CreateSession, SelectSources or Start is issued.
C17_CapabilityCheckedFirst ==
    CapabilityMissing =>
        /\ issued = <<>>
        /\ setupStep \in {"ScreenCast::new", "failed"}
        /\ (ConstructionFailed => error \in {"Capability", "Bus"})

(***************************************************************************)
(* Properties of the cursor-mode selection.                                *)
(***************************************************************************)
\* best_mode has been called on the advertised modes
BestModeCalled == cm_modes # NoModes /\ cm_best # "None"

\* a visible cursor is preferred and a mode that shows one is advertised
VisibleAvailable == cm_show /\ ({"Embedded", "Metadata"} \cap cm_modes # {})

\* C18: for every advertised set and both values of prefer_visible, best_mode
\* returns Embedded if prefer_visible and Embedded is advertised; otherwise
\* Metadata if prefer_visible and Metadata is advertised; otherwise Hidden if
\* Hidden is advertised; otherwise Metadata.
C18_BestModeRule ==
    BestModeCalled =>
        /\ (cm_show /\ "Embedded" \in cm_modes => cm_best = "Embedded")
        /\ (cm_show /\ "Embedded" \notin cm_modes /\ "Metadata" \in cm_modes
               => cm_best = "Metadata")
        /\ (~VisibleAvailable /\ "Hidden" \in cm_modes => cm_best = "Hidden")
        /\ (~VisibleAvailable /\ "Hidden" \notin cm_modes => cm_best = "Metadata")

\* a visible cursor preferred, Hidden and Metadata advertised: Metadata chosen
C18_Witness ==
    /\ BestModeCalled
    /\ cm_show
    /\ cm_modes = {"Hidden", "Metadata"}
    /\ cm_best = "Metadata"

\* C19 as stated: best_mode(true) returns Embedded when advertised, else
\* Metadata when advertised, else Hidden; best_mode(false) returns Hidden when
\* advertised, else Metadata.
C19_AsStated ==
    BestModeCalled =>
        cm_best = IF cm_show
                  THEN IF "Embedded" \in cm_modes THEN "Embedded"
                       ELSE IF "Metadata" \in cm_modes THEN "Metadata"
                       ELSE "Hidden"
                  ELSE IF "Hidden" \in cm_modes THEN "Hidden"
                       ELSE "Metadata"

\* C19: best_mode(true) returns Embedded when advertised, else Metadata when
\* advertised, else Hidden provided at least one mode is advertised, and
\* Metadata when none is; best_mode(false) returns Hidden when advertised,
\* else Metadata.
C19_BestModeByPreference ==
    BestModeCalled =>
        cm_best = IF cm_show
                  THEN IF "Embedded" \in cm_modes THEN "Embedded"
                       ELSE IF "Metadata" \in cm_modes THEN "Metadata"
                       ELSE IF cm_modes # {} THEN "Hidden"
                       ELSE "Metadata"
                  ELSE IF "Hidden" \in cm_modes THEN "Hidden"
                       ELSE "Metadata"

\* a visible cursor preferred and nothing advertised: Metadata, not Hidden
C19_Witness ==
    /\ BestModeCalled
    /\ cm_show
    /\ cm_modes = {}
    /\ cm_best = "Metadata"

(***************************************************************************)
(* Properties of the frames.                                               *)
(***************************************************************************)
\* C20: every Frame handed to the frame channel has len(raw) = width * height * 4,
\* for each of the formats RGB, RGBA, RGBx and BGRx, every negotiated size and
\* every length of the source buffer.
C20_FrameLength ==
    sent # NoFrame => Len(sent.raw) = sent.width * sent.height * 4

(***************************************************************************)
(* The two backends side by side.                                          *)
(***************************************************************************)
OtherBackend(b) == IF b = "polling" THEN "portal" ELSE "polling"

\* C21: the polling operations and the set_state-based portal operations are
\* the same transition function on the Condition: every step of start(),
\* pause() or stop() taken by the running backend leaves the Condition, and
\* returns the result, that the other backend's operation gives from the same
\* Condition; they notify or not together, only the means differ (waker
\* against control channel).
C21_SameTransitionFunction ==
    [][\A c \in Callers :
         LET mine == Dispatch(backend, op[c], condition)
             other == Dispatch(OtherBackend(backend), op[c], condition) IN
           /\ (pc[c] = "body" /\ pc'[c] # "body")
              => /\ condition' = other.new
                 /\ mine.ret = other.ret
                 /\ (mine.notify = "none") = (other.notify = "none")
                 /\ pc'[c] = "idle" => Returns(c, other.ret)
                 /\ pc'[c] # "idle" => other.ret = "Ok"
           /\ (pc[c] \in {"wake", "sleep"} /\ pc'[c] # pc[c])
              => Returns(c, "Ok") /\ condition' = condition]_vars

\* the polling backend went through pause, stop and a refused start, each
\* step as the portal backend's function prescribes
C21_Witness ==
    /\ backend = "polling"
    /\ Len(hist) = 3
    /\ hist[1] = Entry("pause", "Ok")
    /\ hist[2] = Entry("stop", "Ok")
    /\ hist[3] = Entry("start", "Err")
    /\ condition = Dispatch("portal", "start", "Stopped").new

(***************************************************************************)
(* Failed captures of the polling thread.                                  *)
(***************************************************************************)
\* C22: on the polling backend a capture that delivers no frame only takes
\* the thread to its backoff: the frame channel stays open, the thread alive,
\* the Condition as it was and no caller gets a result from it; the only step
\* after the backoff is the next
\* iteration of the loop, and a capture that succeeds (which happens only
\* while the Condition is Running) is delivered on the still open channel.
C22_CaptureFailureIsTransient ==
    [][/\ (backend = "polling" /\ capPc = "capture" /\ capPc' \notin {"capture", "pace"})
          => /\ capPc' = "backoff"
             /\ senderAlive /\ senderAlive'
             /\ UNCHANGED <<condition, parking, frames, hist, pc>>
       /\ (capPc = "backoff" /\ capPc' # "backoff")
          => /\ capPc' = "wait"
             /\ senderAlive'
             /\ UNCHANGED <<condition, frames, hist>>
       /\ (backend = "polling" /\ capPc = "capture" /\ capPc' = "pace")
          => /\ condition = "Running"
             /\ senderAlive /\ senderAlive'
             /\ frames' = Push(frames)
             /\ pushCond' = "Running"]_vars

\* a capture failed after a frame had been delivered; the thread is in its
\* backoff, the channel open, the Condition still Running
C22_Witness ==
    /\ backend = "polling"
    /\ capPc = "backoff"
    /\ frames = 1
    /\ senderAlive
    /\ condition = "Running"
    /\ hist = <<Entry("start", "Ok")>>

(***************************************************************************)
(* Pixel conversions.                                                      *)
(***************************************************************************)
\* the source buffer holds exactly the width * height pixels of bpp bytes
HoldsPixels(bpp) == Len(frame_data) = size.width * size.height * bpp

\* C23: the Frame sent for an RGB buffer of width * height 3-byte pixels has
\* a raw of width * height * 4 bytes; in each pixel bytes 0..2 are the
\* source pixel's R, G, B and byte 3 is 255.
C23_RgbToRgba ==
    (sent # NoFrame /\ format = "RGB" /\ HoldsPixels(3))
    => /\ Len(sent.raw) = size.width * size.height * 4
       /\ \A px \in 0..(size.width * size.height - 1) :
            /\ sent.raw[4 * px + 1] = frame_data[3 * px + 1]
            /\ sent.raw[4 * px + 2] = frame_data[3 * px + 2]
            /\ sent.raw[4 * px + 3] = frame_data[3 * px + 3]
            /\ sent.raw[4 * px + 4] = 255

\* two RGB pixels with three different bytes each were converted
C23_Witness ==
    /\ format = "RGB"
    /\ size = [width |-> 2, height |-> 1]
    /\ frame_data = <<1, 0, 255, 255, 1, 0>>
    /\ sent # NoFrame
    /\ sent.raw = <<1, 0, 255, 255, 255, 1, 0, 255>>

\* C24: the Frame sent for a BGRx buffer has, in every 4-byte pixel, bytes 0
\* and 2 of the source exchanged and bytes 1 and 3 as they were; converting
\* the converted bytes once more gives the source buffer back, whatever its
\* length.
C24_BgrxSwapSelfInverse ==
    (sent # NoFrame /\ format = "BGRx")
    => /\ Len(sent.raw) = Len(frame_data)
       /\ \A px \in 0..(Len(frame_data) \div 4 - 1) :
            /\ sent.raw[4 * px + 1] = frame_data[4 * px + 3]
            /\ sent.raw[4 * px + 2] = frame_data[4 * px + 2]
            /\ sent.raw[4 * px + 3] = frame_data[4 * px + 1]
            /\ sent.raw[4 * px + 4] = frame_data[4 * px + 4]
       /\ convert("BGRx", size, sent.raw) = frame_data

\* two BGRx pixels whose bytes 0 and 2 differ were converted
C24_Witness ==
    /\ format = "BGRx"
    /\ frame_data = <<0, 1, 255, 1, 255, 0, 1, 0>>
    /\ sent # NoFrame
    /\ sent.raw = <<255, 1, 0, 1, 1, 0, 255, 0>>
    /\ sent.raw # frame_data

(***************************************************************************)
(* The control channel handler of the portal thread.                       *)
(***************************************************************************)
\* the dispatch in this step hands a Stopped to the control handler
StoppedReceived ==
    /\ backend = "portal"
    /\ capPc = "loop"
    /\ condition_sender # <<>>
    /\ condition_sender' = <<>>
    /\ \E i \in 1..Len(condition_sender) : condition_sender[i] = "Stopped"

\* C25: when the control handler of the portal thread receives Stopped, the
\* run loop is terminated and the thread ends, dropping the frame Sender,
\* whether or not deactivating or flushing the stream succeeds.
C25_StoppedEndsLoop ==
    [][StoppedReceived => (capPc' = "exited" /\ ~senderAlive')]_vars

(***************************************************************************)
(* Operations that find the Condition already at their target.             *)
(***************************************************************************)
\* C26: start() under Running, pause() under Paused and stop() under Stopped
\* return success and change nothing: the Condition, the parking flag and
\* the control channel stay as they are, the capture thread is neither woken
\* nor parked and no message is sent.
C26_NoOpAtTarget ==
    [][\A c \in Callers :
         (pc[c] = "body" /\ pc'[c] # "body" /\ op[c] \in Ops
            /\ condition = Target(op[c]))
         => /\ Returns(c, "Ok")
            /\ UNCHANGED <<condition, parking, condition_sender, capPc,
                           streamActive, frames, senderAlive>>]_vars

\* on the portal backend a second start() returned under Running, with the
\* single message of the first start() on the control channel
C26_Witness ==
    /\ backend = "portal"
    /\ hist = <<Entry("start", "Ok"), Entry("start", "Ok")>>
    /\ condition = "Running"
    /\ condition_sender = <<"Running">>
    /\ parking

(***************************************************************************)
(* The RecorderWaker.                                                      *)
(***************************************************************************)
\* the capture thread is inside RecorderWaker::wait
InWait == backend = "polling" /\ capPc \in {"wait", "wait_blocked"}

\* C27: no wakeup is lost.  A thread blocked on the condition variable is
\* never left there with the parking flag cleared by a completed wake(), and
\* a thread inside wait() while the flag is clear returns from wait() unless a
\* sleep() sets the flag again first, however wake() and wait() interleave.
C27_NoLostWakeup ==
    /\ [](capPc = "wait_blocked" => parking)
    /\ (InWait /\ ~parking) ~> (~InWait \/ parking)

\* wake() of a start() has completed and the thread is about to test the flag
C27_Witness ==
    /\ InWait
    /\ ~parking
    /\ hist = <<Entry("start", "Ok")>>
    /\ frames = 0

\* C28: wait() returns only in a step that finds the parking flag false; a
\* thread that leaves the condition variable, notified or not, while the flag
\* is true goes back to the test and not on to the capture.
C28_WaitReturnsUnparked ==
    [][/\ (InWait /\ ~InWait') => (~parking /\ ~parking' /\ capPc' = "cond_lock")
       /\ (capPc = "wait_blocked" /\ capPc' # "wait_blocked") => capPc' = "wait"]_vars

\* after a pause() the thread, back from a delivered frame, is blocked in
\* wait() with the flag set
C28_Witness ==
    /\ backend = "polling"
    /\ capPc = "wait_blocked"
    /\ parking
    /\ condition = "Paused"
    /\ frames = 1
    /\ hist = <<Entry("start", "Ok"), Entry("pause", "Ok")>>

(***************************************************************************)
(* The cursor-hiding capability.                                           *)
(***************************************************************************)
\* is_hidden_available has been called on the advertised modes
HiddenChecked == cm_modes # NoModes /\ cm_hidden # "None"

\* C29: is_hidden_available() is true for every advertised set of cursor
\* modes that contains Hidden and false for every set that does not.
C29_HiddenAvailableIffAdvertised ==
    HiddenChecked => ((cm_hidden = "true") = ("Hidden" \in cm_modes))

\* C30: when cursor hiding is requested and ScreenCast::new has passed the
\* capability check, the cursor_mode of the SelectSources call is Hidden.
C30_HiddenSentWhenRequested ==
    \A r \in portalRequests :
        (r.method = "SelectSources" /\ "HideCursor" \in flags)
        => r.options.cursor_mode = "Hidden"

(***************************************************************************)
(* Clones of the recorder handle.                                          *)
(***************************************************************************)
\* another thread than c holds a clone of the handle
OtherCloneAlive(c) == \E d \in Callers \ {c} : owns[d]

\* C31: dropping a clone of the recorder handle while another clone is alive
\* leaves the Condition as it is (so a running recording keeps delivering
\* frames); only the drop of the last clone stops the recording.
C31_DropOfCloneKeepsRecording ==
    [][\A c \in Callers :
         (op[c] = "drop" /\ pc[c] = "body" /\ pc'[c] # "body" /\ OtherCloneAlive(c))
         => condition' = condition]_vars

(***************************************************************************)
(* The parking flag against the Condition.                                 *)
(***************************************************************************)
\* no start(), pause() or stop() call holds the lock on the Condition
NoCallHoldsLock == condLock \notin Callers

\* C32: on the polling backend, whenever no call holds the lock on the
\* Condition, the parking flag is true exactly under Init and Paused and
\* false exactly under Running and Stopped, with concurrent callers.
C32_ParkingFollowsCondition ==
    (backend = "polling" /\ NoCallHoldsLock)
    => (parking = (condition \in {"Init", "Paused"}))

\* two threads hold a handle; start(), pause() and stop() have returned, the
\* flag was set by pause() and cleared again by stop(), and no call holds
\* the lock
C32_Witness ==
    /\ backend = "polling"
    /\ NoCallHoldsLock
    /\ \A c \in Callers : owns[c]
    /\ hist = <<Entry("start", "Ok"), Entry("pause", "Ok"), Entry("stop", "Ok")>>
    /\ condition = "Stopped"
    /\ ~parking
    /\ calls = 3

(***************************************************************************)
(* Deadlock freedom of the polling backend.                                *)
(***************************************************************************)
\* the mutex thread t is blocked on, if any
WaitsFor(t) ==
    IF t = "capture"
    THEN CASE capPc = "wait" -> "parking"
           [] capPc = "cond_lock" -> "condition"
           [] OTHER -> "none"
    ELSE CASE pc[t] = "lock" -> "condition"
           [] pc[t] \in {"wake", "sleep"} /\ parkingLock # t -> "parking"
           [] OTHER -> "none"

Holder(m) == IF m = "condition" THEN condLock ELSE parkingLock

\* a set of threads each blocked on a mutex that a thread of the set holds
Deadlocked(S) ==
    /\ S # {}
    /\ \A t \in S : WaitsFor(t) # "none" /\ Holder(WaitsFor(t)) \in S

\* C33: the polling backend never deadlocks: in no reachable state is there a
\* set among the capture thread and the threads inside start(), pause() or
\* stop() in which each waits for a mutex (of the Condition, of the Waker)
\* held by another of them; and while a thread waits for a mutex some thread
\* can take a step.
C33_NoDeadlock ==
    /\ \A S \in SUBSET Threads : ~Deadlocked(S)
    /\ (\E t \in Threads : WaitsFor(t) # "none") => ENABLED MutexNext

\* a caller inside stop() holds the Condition and waits for the mutex of the
\* Waker, which the capture thread holds inside wait(), while the other
\* caller waits for the Condition
C33_Witness ==
    /\ condLock = FirstCaller
    /\ WaitsFor(FirstCaller) = "parking"
    /\ parkingLock = "capture"
    /\ \E c \in Callers \ {FirstCaller} : WaitsFor(c) = "condition"

(***************************************************************************)
(* The media stream against the Condition.                                 *)
(***************************************************************************)
\* the portal thread is in main_loop.run() outside every callback, nothing is
\* queued on the control channel and no call is changing the Condition
LoopIdle ==
    /\ backend = "portal"
    /\ capPc = "loop"
    /\ condition_sender = <<>>
    /\ NoCallHoldsLock

\* C34: on the portal backend, whenever the control channel is empty and the
\* event loop is idle, the stream is active exactly when the Condition is
\* Running; it is not active under Init, before the first start().
C34_StreamActiveIffRunning ==
    LoopIdle => (streamActive = (condition = "Running"))

(***************************************************************************)
(* The control channel against the Condition.                              *)
(***************************************************************************)
\* the control channel was drained by the loop in this step
Drained == condition_sender # <<>> /\ condition_sender' = <<>>

\* C35: on the portal backend the messages pushed on the control channel are
\* the changes of the Condition, one message per change, pushed in the step
\* that applies the change and carrying the new Condition; nothing else is
\* pushed.  Hence, with concurrent callers too, whenever no caller holds the
\* lock and a message is on the channel, the last one equals the Condition.
C35_MessagesAreTheChanges ==
    /\ [](backend = "portal" /\ NoCallHoldsLock /\ condition_sender # <<>>
            => condition_sender[Len(condition_sender)] = condition)
    /\ [][backend = "portal" =>
            /\ condition' # condition
               => condition_sender' = Append(condition_sender, condition')
            /\ condition' = condition
               => (condition_sender' = condition_sender \/ Drained)]_vars

\* two threads hold a handle; start() and pause() have been applied and both
\* messages are on the channel in that order
C35_Witness ==
    /\ backend = "portal"
    /\ \A c \in Callers : owns[c]
    /\ NoCallHoldsLock
    /\ condition_sender = <<"Running", "Paused">>
    /\ condition = "Paused"
    /\ \E c \in Callers : pc[c] = "lock"

(***************************************************************************)
(* The handle token of a call.                                             *)
(***************************************************************************)
\* the method call is issued in this step
CallStep == issued' # issued

\* a ScreenCast method is entered in this step: its first statement runs
MethodEntered == InCall /\ obrPc = 0 /\ obrPc' # 0

\* C36: for CreateSession, SelectSources and Start alike, the handle_token in
\* the options of the call is the token in the response path the client has
\* subscribed to, that path being request-prefix/bus-identity/token; and each
\* of the three methods begins by generating a token of its own, none is
\* carried over from the call before.
C36_TokenInOptionsAndPath ==
    [][/\ CallStep
          => /\ Request.options.handle_token = handle_token
             /\ handle_token \in generate_token_handle
             /\ subscribed = {<<REQUEST_PATH_PREFIX, unique_name,
                                Request.options.handle_token>>}
             /\ Request \in portalRequests'
       /\ MethodEntered
          => /\ handle_token = NoToken
             /\ subscribed = {}
             /\ handle_token' \in generate_token_handle]_vars

\* Start, the third call, is at the portal with the token of the path that
\* is subscribed, after CreateSession and SelectSources have been answered
C36_Witness ==
    /\ setupStep = "Start"
    /\ issued = SetupCalls
    /\ handle_token = <<TOKEN_HANDLE_PREFIX, 2>>
    /\ subscribed = {request_handle_path(unique_name, handle_token)}
    /\ \E r \in portalRequests :
          r.method = "Start" /\ r.options.handle_token = handle_token

(***************************************************************************)
(* The session of a failed construction.                                   *)
(***************************************************************************)
\* create_session returned a session and a later step of construction failed
FailedAfterCreateSession == ConstructionFailed /\ session # NoSession

\* C37: when SelectSources or Start (or a later step of construction) fails
\* after CreateSession succeeded, the session is closed by the time
\* construction returns the error: it is not open at the portal any more.
C37_SessionClosedOnFailedSetup ==
    FailedAfterCreateSession => session \notin portalSessions

====
